---------------------------- MODULE Spec2Model ----------------------------
(***************************************************************************)
(* Homeostatic city regulator (Quantumlorld/homeostatic_city_biocor).      *)
(*                                                                         *)
(* Several state machines share this module:                               *)
(*   Spec      city_core/src/main.rs: HomeostaticEngine behind             *)
(*             Arc<Mutex<..>>, the background update task and the warp     *)
(*             route handlers (GET /state, POST /influence, POST /biocore) *)
(*   SpecCore  rust-core/src/{zone,engine,api}.rs: the direct-correction   *)
(*             engine and its influence route                              *)
(*   SpecConv  the EMA-driven tick iterated on one zone seeded at 0.9      *)
(*   SpecMain  rust-core/src/main.rs: CityState and its two routes         *)
(*   SpecTimer the city_core background task against tokio's interval      *)
(*   SpecLunaSeq  luna_evolution.rs: process_conversation, lock by lock,   *)
(*             for one client calling it repeatedly                        *)
(*                                                                         *)
(* Numbers.  The code computes in f64.  Here a real x in [0,1] is the      *)
(* integer round(x * SCALE); products are rounded to the nearest unit      *)
(* (RoundDiv), sums and comparisons are exact.  Timestamps (Utc::now) are  *)
(* left out of the city_core records: no code reads them back.             *)
(***************************************************************************)
EXTENDS Integers, Sequences, FiniteSets, TLC

\* ------------------------------------------------------------------ bounds
\* Mutating operations (ticks and influence requests) started in one run of Spec.
MaxOps == 2
\* Ticks applied in one run of SpecConv.
MaxConvTicks == 240
\* Operations in one run of SpecCore.
MaxCoreOps == 3
\* Largest value read from the wall clock (seconds, relative).
MaxClock == 1

\* ------------------------------------------------------------ fixed point
SCALE == 1000 * 1000
\* eta is a multiple of 1/1000 in every variant (0.1, 0.02).
EtaUnit == SCALE \div 1000

RoundDiv(n, d) == (2 * n + d) \div (2 * d)

\* f64 literals of the sources, as fixed-point values
F01 == SCALE \div 10
Target05 == 5 * F01
Thr04 == 4 * F01
Thr07 == 7 * F01
Thr09 == 9 * F01

Abs(x) == IF x < 0 THEN -x ELSE x

\* f64::clamp(x, 0.0, 1.0)
ClampNoUpper(x) == IF x < 0 THEN 0 ELSE x
clamp(x) == IF x < 0 THEN 0 ELSE IF x > SCALE THEN SCALE ELSE x

\* ------------------------------------------------- city_core: pure engine
\* An engine value is [zones, ema, target, eta]; zones and ema are indexed
\* 0 .. len-1 as the Vec's are.
len(v) == Cardinality(DOMAIN v)

\* the match of update (lines 82-86): a 3-state scheme
classify(x) ==
    IF x < Thr04 THEN "CALM"
    ELSE IF x < Thr07 THEN "OVERSTIMULATED"
    ELSE "EMERGENT"

\* weights of the EMA, in hundredths: 0.97 and 0.03
EmaKeep == 97
EmaNew == 3

\* ema: vec![0.5; zones.len()]
SeedEma(zs) == [i \in DOMAIN zs |-> Target05]

\* HomeostaticEngine::new
new ==
    LET zs == [i \in 0..4 |->
                 [id |-> i,
                  activity |-> CASE i = 0 -> 3 * F01 [] i = 1 -> 6 * F01
                                 [] i = 2 -> 2 * F01 [] i = 3 -> 8 * F01
                                 [] OTHER -> 4 * F01,
                  state |-> CASE i = 1 -> "OVERSTIMULATED"
                              [] i = 3 -> "EMERGENT"
                              [] OTHER -> "CALM"]]
    IN [zones |-> zs, ema |-> SeedEma(zs), target |-> Target05, eta |-> F01]

\* self.ema[i] = 0.97 * self.ema[i] + 0.03 * zone.activity
EmaStep(e, a) == RoundDiv(EmaKeep * e + EmaNew * a, EmaKeep + EmaNew)

\* adjustment = self.eta * (self.target - self.ema[i])
AdjustmentOvershoot(eta, target, e) ==
    2 * RoundDiv((eta \div EtaUnit) * (target - e), SCALE \div EtaUnit)
AdjustmentWrongSign(eta, target, e) == RoundDiv((eta \div EtaUnit) * (e - target), SCALE \div EtaUnit)
Adjustment(eta, target, e) == RoundDiv((eta \div EtaUnit) * (target - e), SCALE \div EtaUnit)

\* one iteration of the loop of update, for zone i
UpdateZoneCoupled(eng, i) ==
    LET e2 == EmaStep(eng.ema[i], eng.zones[i].activity)
        n == (i + 1) % len(eng.zones)
        a2 == clamp(eng.zones[i].activity + Adjustment(eng.eta, eng.target, eng.ema[n]))
    IN [eng EXCEPT !.ema[i] = e2,
                   !.zones[i].activity = a2,
                   !.zones[i].state = classify(a2)]
UpdateZone(eng, i) ==
    LET e2 == EmaStep(eng.ema[i], eng.zones[i].activity)
        a2 == clamp(eng.zones[i].activity + Adjustment(eng.eta, eng.target, e2))
    IN [eng EXCEPT !.ema[i] = e2,
                   !.zones[i].activity = a2,
                   !.zones[i].state = classify(a2)]

RECURSIVE UpdateFrom(_, _)
UpdateFrom(eng, i) ==
    IF i >= len(eng.zones) THEN eng ELSE UpdateFrom(UpdateZone(eng, i), i + 1)

\* HomeostaticEngine::update: zones 0 .. len-1 in index order
update(eng) == UpdateFrom(eng, 0)

\* HomeostaticEngine::apply_influence: the pair <<engine after, result>>
ApplyInfluenceWrapIndex(eng, zone_id, influence) ==
    LET z == IF zone_id >= len(eng.zones) THEN len(eng.zones) - 1 ELSE zone_id
    IN <<[eng EXCEPT !.zones[z].activity = clamp(eng.zones[z].activity + influence)],
         IF zone_id >= len(eng.zones) THEN "Err" ELSE "Ok">>
ApplyInfluenceTouchEma(eng, zone_id, influence) ==
    IF zone_id >= len(eng.zones)
    THEN <<eng, "Err">>
    ELSE <<[eng EXCEPT !.zones[zone_id].activity =
                          clamp(eng.zones[zone_id].activity + influence),
                       !.ema[zone_id] = clamp(eng.zones[zone_id].activity + influence)],
           "Ok">>
ApplyInfluenceGrow(eng, zone_id, influence) ==
    IF zone_id >= len(eng.zones)
    THEN <<[eng EXCEPT !.zones =
               [i \in 0..len(eng.zones) |->
                   IF i < len(eng.zones) THEN eng.zones[i]
                   ELSE [id |-> zone_id, activity |-> clamp(influence),
                         state |-> "CALM"]]],
           "Ok">>
    ELSE <<[eng EXCEPT !.zones[zone_id].activity =
                          clamp(eng.zones[zone_id].activity + influence)],
           "Ok">>
ApplyInfluenceOffByOne(eng, zone_id, influence) ==
    IF zone_id + 1 >= len(eng.zones)
    THEN <<eng, "Err">>
    ELSE <<[eng EXCEPT !.zones[zone_id].activity =
                          clamp(eng.zones[zone_id].activity + influence)],
           "Ok">>
apply_influence(eng, zone_id, influence) ==
    IF zone_id >= len(eng.zones)
    THEN <<eng, "Err">>
    ELSE <<[eng EXCEPT !.zones[zone_id].activity =
                          clamp(eng.zones[zone_id].activity + influence)],
           "Ok">>

\* HomeostaticEngine::apply_biocore_effect
apply_biocore_effect(eng, zone_id, magnitude) == apply_influence(eng, zone_id, magnitude)

RECURSIVE SumActivity(_, _)
SumActivity(zs, i) ==
    IF i >= len(zs) THEN 0 ELSE zs[i].activity + SumActivity(zs, i + 1)

\* HomeostaticEngine::get_state: zones.clone() and the mean activity
GetStateStale(eng) ==
    [zones |-> new.zones, system_health |-> RoundDiv(SumActivity(new.zones, 0), len(new.zones))]
get_state(eng) ==
    [zones |-> eng.zones,
     system_health |-> RoundDiv(SumActivity(eng.zones, 0), len(eng.zones))]

\* --------------------------------------------------------------- variables
VARIABLES
    engine,     \* city_core: the HomeostaticEngine inside the Mutex
    mutex,      \* city_core: the task holding the MutexGuard, or NoHolder
    pc,         \* city_core: position of the background task and of each handler
    upd_i,      \* city_core: index of the zone the running update() is at
    req,        \* city_core: the request each handler is serving
    resp,       \* city_core: the reply each handler built last
    issued,     \* number of ticks fired and influence requests received
    oplog,      \* history: the operations in the order they took effect
    nret,       \* history: number of operations that have released the lock
    reqRet,     \* history: nret when the handler's request arrived
    snapAt,     \* history: Len(oplog) when the handler took its snapshot
    nticks,     \* SpecConv: ticks applied so far
    core,       \* rust-core: the engine (zones, config)
    core_pend,  \* rust-core: influence requests past the engine call, reply not built yet
    core_call,  \* rust-core: the last call made to the engine and what it returned
    core_resp,  \* rust-core: the last reply of the influence route
    core_ops,   \* rust-core: operations so far
    cstate,     \* rust-core main.rs: the CityState inside the Mutex
    main_resp,  \* rust-core main.rs: the last reply of a route
    main_ops,   \* rust-core main.rs: requests served so far
    elapsed,    \* SpecTimer: whole periods of wall time since the interval was made
    deadline,   \* SpecTimer: the interval's next deadline, in periods
    fired,      \* SpecTimer: completions of interval.tick()
    last_fire,  \* SpecTimer: value of elapsed at the last completion, -1 before the first
    luna_pc,    \* luna: position of each caller inside process_conversation
    luna_lock,  \* luna: holder of each of the engine's mutexes, or NoHolder
    luna_poison,            \* luna: the mutexes poisoned by a panic
    personality,            \* luna: LunaPersonality (interaction count and level)
    evolution_metrics,      \* luna: EvolutionMetrics (the counters)
    conversation_history,   \* luna: number of conversations stored
    zone_patterns,          \* luna: zone name -> recorded activity levels
    learning_cache,         \* luna: keys present in the cache
    luna_arg,   \* luna: zone_context of the call each caller is in
    luna_tmp,   \* luna: the clone update_personality returned to the call
    luna_ret,   \* luna: what each caller's last call returned
    luna_started,           \* luna: calls started
    luna_done,              \* luna: calls that returned Ok
    bhcs,       \* simple_engine: the BHCS value (zones, learning_rate)
    bhcs_call,  \* simple_engine: the last method called on it
    bhcs_status,            \* simple_engine: health and mean activity last read
    bhcs_ops    \* simple_engine: method calls so far

vars == <<engine, mutex, pc, upd_i, req, resp, issued, oplog, nret, reqRet, snapAt,
          nticks, core, core_pend, core_call, core_resp, core_ops,
          cstate, main_resp, main_ops, elapsed, deadline, fired, last_fire,
          luna_pc, luna_lock, luna_poison, personality, evolution_metrics,
          conversation_history, zone_patterns, learning_cache, luna_arg, luna_tmp,
          luna_ret, luna_started, luna_done,
          bhcs, bhcs_call, bhcs_status, bhcs_ops>>
cityVars == <<engine, mutex, pc, upd_i, req, resp, issued, oplog, nret, reqRet, snapAt>>
convVars == <<nticks>>
coreVars == <<core, core_pend, core_call, core_resp, core_ops>>
mainVars == <<cstate, main_resp, main_ops>>
simpleVars == <<bhcs, bhcs_call, bhcs_status, bhcs_ops>>
timerVars == <<elapsed, deadline, fired, last_fire>>
lunaVars == <<luna_pc, luna_lock, luna_poison, personality, evolution_metrics,
              conversation_history, zone_patterns, learning_cache, luna_arg, luna_tmp,
              luna_ret, luna_started, luna_done>>

\* ----------------------------------------- city_core: tasks and the mutex
Sched == "sched"
Handlers == {"h1", "h2"}
Procs == {Sched} \cup Handlers
NoHolder == "none"

\* bodies of POST /influence: zone 0 (valid) and 5 = N (invalid), influence
\* 5.0 and -0.35
ZoneIdInputs == {0, 5}
InfluenceInputs == {5 * SCALE, 0 - 35 * (F01 \div 10)}
\* bodies of POST /biocore, as <<zone_id, magnitude>>
BiocoreInputs == {<<4, 0 - 35 * (F01 \div 10)>>, <<5, 5 * SCALE>>}

NoReq == [kind |-> "none"]
NoResp == [kind |-> "none"]

TickOp == [op |-> "tick"]
InfluenceOp(z, d) == [op |-> "influence", zone_id |-> z, influence |-> d]

\* engine.lock().unwrap(): blocks until no task holds the guard
AcquireNoWait(p) == mutex' = p
Acquire(p) == mutex = NoHolder /\ mutex' = p

\* the MutexGuard dropped at the end of the closure / loop body
ReleaseKept(p) == mutex' = mutex
Release(p) == mutex' = NoHolder

\* the engine after the first k operations of the log, from the constructed state
RECURSIVE Replay(_, _)
Replay(log, k) ==
    IF k = 0 THEN new
    ELSE LET before == Replay(log, k - 1)
             o == log[k]
         IN IF o.op = "tick" THEN update(before)
            ELSE apply_influence(before, o.zone_id, o.influence)[1]

CityIdle ==
    /\ engine = new
    /\ mutex = NoHolder
    /\ pc = [p \in Procs |-> IF p = Sched THEN "sleep" ELSE "idle"]
    /\ upd_i = 0
    /\ req = [p \in Handlers |-> NoReq]
    /\ resp = [p \in Handlers |-> NoResp]
    /\ issued = 0
    /\ oplog = <<>>
    /\ nret = 0
    /\ reqRet = [p \in Handlers |-> 0]
    /\ snapAt = [p \in Handlers |-> 0]

\* interval.tick().await completes (line 125)
TimerFire ==
    /\ pc[Sched] = "sleep"
    /\ issued < MaxOps
    /\ pc' = [pc EXCEPT ![Sched] = "lock"]
    /\ issued' = issued + 1
    /\ UNCHANGED <<engine, mutex, upd_i, req, resp, oplog, nret, reqRet, snapAt>>
    /\ UNCHANGED <<convVars, coreVars, mainVars, timerVars, lunaVars, simpleVars>>

\* let mut eng = engine_clone.lock().unwrap() (line 126)
SchedLock ==
    /\ pc[Sched] = "lock"
    /\ Acquire(Sched)
    /\ pc' = [pc EXCEPT ![Sched] = "update"]
    /\ upd_i' = 0
    /\ UNCHANGED <<engine, req, resp, issued, oplog, nret, reqRet, snapAt>>
    /\ UNCHANGED <<convVars, coreVars, mainVars, timerVars, lunaVars, simpleVars>>

\* eng.update(): one zone of the loop (lines 70-87); the call has taken
\* effect once the last zone is done
SchedUpdateZone ==
    /\ pc[Sched] = "update"
    /\ upd_i < len(engine.zones)
    /\ engine' = UpdateZone(engine, upd_i)
    /\ upd_i' = upd_i + 1
    /\ IF upd_i + 1 = len(engine.zones)
       THEN /\ pc' = [pc EXCEPT ![Sched] = "unlock"]
            /\ oplog' = Append(oplog, TickOp)
       ELSE UNCHANGED <<pc, oplog>>
    /\ UNCHANGED <<mutex, req, resp, issued, nret, reqRet, snapAt>>
    /\ UNCHANGED <<convVars, coreVars, mainVars, timerVars, lunaVars, simpleVars>>

\* end of the loop body: the guard is dropped (line 128)
SchedUnlock ==
    /\ pc[Sched] = "unlock"
    /\ Release(Sched)
    /\ pc' = [pc EXCEPT ![Sched] = "sleep"]
    /\ nret' = nret + 1
    /\ UNCHANGED <<engine, upd_i, req, resp, issued, oplog, reqRet, snapAt>>
    /\ UNCHANGED <<convVars, coreVars, mainVars, timerVars, lunaVars, simpleVars>>

\* GET /state arrives at a handler
RecvState(p) ==
    /\ pc[p] = "idle"
    /\ req' = [req EXCEPT ![p] = [kind |-> "state"]]
    /\ resp' = [resp EXCEPT ![p] = NoResp]
    /\ reqRet' = [reqRet EXCEPT ![p] = nret]
    /\ pc' = [pc EXCEPT ![p] = "lock"]
    /\ UNCHANGED <<engine, mutex, upd_i, issued, oplog, nret, snapAt>>
    /\ UNCHANGED <<convVars, coreVars, mainVars, timerVars, lunaVars, simpleVars>>

\* POST /influence or POST /biocore arrives with its JSON body
RecvInfluence(p, k, z, d) ==
    /\ pc[p] = "idle"
    /\ issued < MaxOps
    /\ req' = [req EXCEPT ![p] = [kind |-> k, zone_id |-> z, influence |-> d]]
    /\ resp' = [resp EXCEPT ![p] = NoResp]
    /\ reqRet' = [reqRet EXCEPT ![p] = nret]
    /\ pc' = [pc EXCEPT ![p] = "lock"]
    /\ issued' = issued + 1
    /\ UNCHANGED <<engine, mutex, upd_i, oplog, nret, snapAt>>
    /\ UNCHANGED <<convVars, coreVars, mainVars, timerVars, lunaVars, simpleVars>>

\* engine.lock().unwrap() of a route closure (lines 154, 166, 188)
HandlerLock(p) ==
    /\ pc[p] = "lock"
    /\ Acquire(p)
    /\ pc' = [pc EXCEPT ![p] = "cs"]
    /\ UNCHANGED <<engine, upd_i, req, resp, issued, oplog, nret, reqRet, snapAt>>
    /\ UNCHANGED <<convVars, coreVars, mainVars, timerVars, lunaVars, simpleVars>>

\* GET /state: eng.get_state() and the JSON reply (lines 155-156)
HandleState(p) ==
    /\ pc[p] = "cs"
    /\ req[p].kind = "state"
    /\ resp' = [resp EXCEPT ![p] = [kind |-> "state", body |-> get_state(engine)]]
    /\ snapAt' = [snapAt EXCEPT ![p] = Len(oplog)]
    /\ pc' = [pc EXCEPT ![p] = "reply"]
    /\ UNCHANGED <<engine, mutex, upd_i, req, issued, oplog, nret, reqRet>>
    /\ UNCHANGED <<convVars, coreVars, mainVars, timerVars, lunaVars, simpleVars>>

\* POST /influence and POST /biocore: the call and the reply built from its
\* Result (lines 167-178, 189-201)
HandleInfluence(p) ==
    /\ pc[p] = "cs"
    /\ req[p].kind \in {"influence", "biocore"}
    /\ LET r == IF req[p].kind = "biocore"
                THEN apply_biocore_effect(engine, req[p].zone_id, req[p].influence)
                ELSE apply_influence(engine, req[p].zone_id, req[p].influence)
       IN /\ engine' = r[1]
          /\ resp' = [resp EXCEPT ![p] =
                        [kind |-> req[p].kind, success |-> (r[2] = "Ok"),
                         result |-> r[2],
                         zone_id |-> req[p].zone_id, influence |-> req[p].influence]]
    /\ oplog' = Append(oplog, InfluenceOp(req[p].zone_id, req[p].influence))
    /\ pc' = [pc EXCEPT ![p] = "reply"]
    /\ UNCHANGED <<mutex, upd_i, req, issued, nret, reqRet, snapAt>>
    /\ UNCHANGED <<convVars, coreVars, mainVars, timerVars, lunaVars, simpleVars>>

\* the closure returns: the guard is dropped and the reply is sent
HandlerUnlock(p) ==
    /\ pc[p] = "reply"
    /\ Release(p)
    /\ pc' = [pc EXCEPT ![p] = "idle"]
    /\ nret' = IF req[p].kind = "state" THEN nret ELSE nret + 1
    /\ UNCHANGED <<engine, upd_i, req, resp, issued, oplog, reqRet, snapAt>>
    /\ UNCHANGED <<convVars, coreVars, mainVars, timerVars, lunaVars, simpleVars>>

\* --------------------------------------------- rust-core: zone.rs, engine.rs
\* ZoneState::from_activity: the 4-state scheme
from_activity(x) ==
    IF x < Thr04 THEN "Calm"
    ELSE IF x < Thr07 THEN "Overstimulated"
    ELSE IF x < Thr09 THEN "Emergent"
    ELSE "Critical"

\* Zone::new(id); a is the value of rand::random::<f64>() * 0.6 + 0.2
Zone_new(id, a, now) ==
    [id |-> id, activity |-> a, target |-> Target05,
     state |-> from_activity(a), last_update |-> now]

\* Zone::apply_adjustment
Zone_apply_adjustment(z, adjustment, now) ==
    LET a2 == clamp(z.activity + adjustment)
    IN [z EXCEPT !.activity = a2, !.state = from_activity(a2), !.last_update = now]

\* Zone::apply_influence
Zone_apply_influence(z, influence, now) ==
    LET a2 == clamp(z.activity + influence)
    IN [z EXCEPT !.activity = a2, !.state = from_activity(a2), !.last_update = now]

\* HomeostaticConfig::default
HomeostaticConfig_default ==
    [target_calmness |-> Target05, learning_rate |-> 2 * (F01 \div 10), zones |-> 5]

\* HomeostaticEngine::new(config); seeds[i] is zone i's random activity and
\* nows[i] the clock value read by Zone::new(i)
Engine_new(config, seeds, nows) ==
    [zones |-> [i \in 0..(config.zones - 1) |-> Zone_new(i, seeds[i], nows[i])],
     config |-> config]

\* HomeostaticEngine::update: error and adjustment from the raw activity;
\* nows[i] is the clock value read by apply_adjustment of zone i
Engine_update(eng, nows) ==
    [eng EXCEPT !.zones =
        [i \in DOMAIN eng.zones |->
            Zone_apply_adjustment(
                eng.zones[i],
                Adjustment(eng.config.learning_rate, eng.config.target_calmness,
                           eng.zones[i].activity),
                nows[i])]]

\* HomeostaticEngine::apply_influence: returns (); zones.get_mut(zone_id) is
\* None for zone_id >= len and the call then does nothing
Engine_apply_influence(eng, zone_id, influence, now) ==
    IF zone_id \in DOMAIN eng.zones
    THEN <<[eng EXCEPT !.zones[zone_id] =
                Zone_apply_influence(eng.zones[zone_id], influence, now)], "Unit">>
    ELSE <<eng, "Unit">>

\* HomeostaticEngine::get_system_metrics
EngineMetricsSigned(eng, now) ==
    LET avg == RoundDiv(SumActivity(eng.zones, 0), len(eng.zones))
    IN [average_activity |-> avg,
        total_zones |-> len(eng.zones),
        homeostatic_balance |-> avg - eng.config.target_calmness,
        timestamp |-> now]
Engine_get_system_metrics(eng, now) ==
    LET avg == RoundDiv(SumActivity(eng.zones, 0), len(eng.zones))
    IN [average_activity |-> avg,
        total_zones |-> len(eng.zones),
        homeostatic_balance |-> Abs(avg - eng.config.target_calmness),
        timestamp |-> now]

\* ------------------------------------------------------ rust-core: actions
\* values of rand::random::<f64>() * 0.6 + 0.2 tried for each zone
CoreSeeds == {SCALE \div 4, 3 * (SCALE \div 4)}
\* config.zones of the engines handed to the server and to the tick loop
CoreZones == 2
CoreConfig == [HomeostaticConfig_default EXCEPT !.zones = CoreZones]
\* body["zone_id"].as_u64(): Some(0), Some(N-1), Some(N), or None (the field
\* is absent or not a u64)
None == [some |-> FALSE]
Some(v) == [some |-> TRUE, v |-> v]
unwrap_or(o, d) == IF o.some THEN o.v ELSE d
CoreZoneIdInputs == {Some(0), Some(CoreZones - 1), Some(CoreZones), None}
CoreInfluenceInputs == {5 * SCALE, 0 - (SCALE \div 4)}
NoCall == [fn |-> "none"]
\* tasks serving POST /influence
CoreHandlers == {"r1", "r2"}

\* chrono::Utc::now().timestamp(): every read gives what the wall clock shows
\* then, which can be later than, equal to or (after a clock step) earlier
\* than any value read before
NowValues == 0..MaxClock

CoreIdle ==
    /\ core = Engine_new(HomeostaticConfig_default,
                         [i \in 0..4 |-> SCALE \div 4], [i \in 0..4 |-> 0])
    /\ core_pend = [h \in CoreHandlers |-> NoCall]
    /\ core_call = NoCall
    /\ core_resp = NoResp
    /\ core_ops = 0

CoreInit ==
    /\ \E seeds \in [0..(CoreZones - 1) -> CoreSeeds],
          nows \in [0..(CoreZones - 1) -> NowValues] :
          core = Engine_new(CoreConfig, seeds, nows)
    /\ core_pend = [h \in CoreHandlers |-> NoCall]
    /\ core_call = NoCall
    /\ core_resp = NoResp
    /\ core_ops = 0

\* the periodic engine.update()
CoreUpdate ==
    /\ core_ops < MaxCoreOps
    /\ \E nows \in [DOMAIN core.zones -> NowValues] :
          core' = Engine_update(core, nows)
    /\ core_call' = [fn |-> "update", ret |-> "Unit"]
    /\ core_ops' = core_ops + 1
    /\ UNCHANGED <<core_pend, core_resp>>
    /\ UNCHANGED <<cityVars, convVars, mainVars, timerVars, lunaVars, simpleVars>>

\* Ticks of the direct-correction engine in one run.
MaxDirectTicks == 6

\* starting activities of Zone::new (the range is [0.2, 0.8)) and learning
\* rates of a HomeostaticConfig: the default 0.02, 0.5 and 1.0
DirectSeeds == {2 * F01, Target05, 79 * (F01 \div 10)}
DirectRates == {2 * (F01 \div 10), 5 * F01, SCALE}

DirectInit ==
    /\ \E seeds \in [0..(CoreZones - 1) -> DirectSeeds], rate \in DirectRates,
          nows \in [0..(CoreZones - 1) -> NowValues] :
          core = Engine_new([CoreConfig EXCEPT !.learning_rate = rate], seeds, nows)
    /\ core_pend = [h \in CoreHandlers |-> NoCall]
    /\ core_call = NoCall
    /\ core_resp = NoResp
    /\ core_ops = 0

\* engine.update() with nothing between the ticks
DirectTick ==
    /\ core_ops < MaxDirectTicks
    /\ \E nows \in [DOMAIN core.zones -> NowValues] :
          core' = Engine_update(core, nows)
    /\ core_call' = [fn |-> "update", ret |-> "Unit"]
    /\ core_ops' = core_ops + 1
    /\ UNCHANGED <<core_pend, core_resp>>
    /\ UNCHANGED <<cityVars, convVars, mainVars, timerVars, lunaVars, simpleVars>>

\* api.rs apply_influence, lines 81-87: zone_id and influence read from the
\* body with unwrap_or(0) / unwrap_or(0.0), the engine call under the lock,
\* and the lock released at the end of the block
CoreInfluenceCall(h, zid, inf) ==
    /\ core_ops < MaxCoreOps
    /\ core_pend[h] = NoCall
    /\ LET zone_id == unwrap_or(zid, 0)
       IN \E t \in NowValues :
            LET r == Engine_apply_influence(core, zone_id, inf, t)
            IN /\ core' = r[1]
               /\ core_call' = [fn |-> "apply_influence", zone_id |-> zone_id,
                                influence |-> inf, ret |-> r[2]]
               /\ core_pend' = [core_pend EXCEPT ![h] =
                                  [fn |-> "apply_influence", zone_id |-> zone_id,
                                   influence |-> inf, requested |-> zid]]
    /\ core_ops' = core_ops + 1
    /\ UNCHANGED core_resp
    /\ UNCHANGED <<cityVars, convVars, mainVars, timerVars, lunaVars, simpleVars>>

\* api.rs apply_influence, lines 89-95: the reply is built from the request's
\* own zone_id and influence, with the engine lock no longer held
CoreInfluenceReply(h) ==
    /\ core_pend[h] # NoCall
    /\ core_resp' = [kind |-> "influence", success |-> TRUE,
                     zone_id |-> core_pend[h].zone_id,
                     influence |-> core_pend[h].influence,
                     requested |-> core_pend[h].requested]
    /\ core_pend' = [core_pend EXCEPT ![h] = NoCall]
    /\ UNCHANGED <<core, core_call, core_ops>>
    /\ UNCHANGED <<cityVars, convVars, mainVars, timerVars, lunaVars, simpleVars>>

\* api.rs get_state: the zones and get_system_metrics under one lock, which
\* is held until the handler returns
CoreGetState ==
    /\ core_ops < MaxCoreOps
    /\ \E t \in NowValues :
          core_resp' = [kind |-> "state",
                        zones |-> [i \in DOMAIN core.zones |->
                                     [id |-> core.zones[i].id,
                                      activity |-> core.zones[i].activity,
                                      state |-> core.zones[i].state,
                                      target |-> core.zones[i].target]],
                        metrics |-> Engine_get_system_metrics(core, t)]
    /\ core_call' = [fn |-> "get_system_metrics", ret |-> "Unit"]
    /\ core_ops' = core_ops + 1
    /\ UNCHANGED <<core, core_pend>>
    /\ UNCHANGED <<cityVars, convVars, mainVars, timerVars, lunaVars, simpleVars>>

\* ------------------------------------------------- SpecConv: repeated tick
\* ema seeds of the two EMA-driven constructors: vec![0.5; n] (city_core) and
\* the zone's own activity (rust-core main.rs CityState::new)
ConvEngine(a, e) ==
    [zones |-> [i \in {0} |-> [id |-> 0, activity |-> a, state |-> classify(a)]],
     ema |-> [i \in {0} |-> e],
     target |-> Target05,
     eta |-> F01]

ConvIdle == nticks = 0

ConvTick ==
    /\ nticks < MaxConvTicks
    /\ engine' = update(engine)
    /\ nticks' = nticks + 1
    /\ UNCHANGED <<mutex, pc, upd_i, req, resp, issued, oplog, nret, reqRet, snapAt>>
    /\ UNCHANGED <<coreVars, mainVars, timerVars, lunaVars, simpleVars>>

\* ------------------------------------- rust-core/src/main.rs: CityState
\* Requests served in one run of SpecMain.
MaxMainOps == 3

\* literals of apply_biocore_effect, in hundredths: -0.05, 0.03, 0.01
Dampen == 0 - 5
Activate == 1 + 2
Minimal == 2 - 1
Hundred == 10 * 10

\* rand::random::<f32>() per zone: zone 0 draws 0.3, 0.5 or 0.8, the others
\* 0.2 or 0.9
MainSeeds ==
    {[i \in 0..4 |-> IF i = 0 THEN a ELSE b] :
        a \in {3 * F01, Target05, 8 * F01}, b \in {2 * F01, 9 * F01}}

\* CityState::new; seed holds the zones_count random draws
CityState_new(seed, target, eta) ==
    [zones |-> [i \in DOMAIN seed |-> [id |-> i, activity |-> seed[i]]],
     target |-> target,
     eta |-> eta,
     ema |-> [i \in DOMAIN seed |-> seed[i]]]

\* one iteration of the loop of homeostatic_update
HomeostaticZone(s, i) ==
    LET e2 == EmaStep(s.ema[i], s.zones[i].activity)
        a2 == clamp(s.zones[i].activity + Adjustment(s.eta, s.target, e2))
    IN [s EXCEPT !.ema[i] = e2, !.zones[i].activity = a2]

RECURSIVE HomeostaticFrom(_, _)
HomeostaticFrom(s, i) ==
    IF i >= len(s.zones) THEN s ELSE HomeostaticFrom(HomeostaticZone(s, i), i + 1)

\* CityState::homeostatic_update
homeostatic_update(s) == HomeostaticFrom(s, 0)

\* CityState::apply_biocore_effect: zones.get_mut(input.zone) is None for an
\* index outside the vector
CityState_apply_biocore_effect(s, input) ==
    IF input.zone >= len(s.zones) THEN s
    ELSE LET a == s.zones[input.zone].activity
             effect == IF a > Thr07 THEN RoundDiv(Dampen * input.synergy, Hundred)
                       ELSE IF a < Thr04 THEN RoundDiv(Activate * input.synergy, Hundred)
                       ELSE RoundDiv(Minimal * (input.synergy - Target05), Hundred)
         IN [s EXCEPT !.zones[input.zone].activity = clamp(a + effect)]

\* CityState::get_zone_state
get_zone_state(activity) ==
    IF activity < Thr04 THEN "CALM"
    ELSE IF activity < Thr07 THEN "OVERSTIMULATED"
    ELSE "EMERGENT"

\* bodies of POST /biocore: zone 0 with synergy 1.0 or 0.2, zone 5 = N
MainBiocoreInputs ==
    {[zone |-> 0, synergy |-> SCALE], [zone |-> 0, synergy |-> 2 * F01],
     [zone |-> 5, synergy |-> SCALE]}

MainIdle ==
    /\ cstate = CityState_new([i \in 0..4 |-> Target05], Target05, 2 * (F01 \div 10))
    /\ main_resp = NoResp
    /\ main_ops = 0

\* let state = Arc::new(Mutex::new(CityState::new(5, 0.5, 0.02)))
MainInit ==
    /\ \E seed \in MainSeeds : cstate = CityState_new(seed, Target05, 2 * (F01 \div 10))
    /\ main_resp = NoResp
    /\ main_ops = 0

\* GET /state: the closure locks the state, runs homeostatic_update and
\* replies with the zones
MainGetState ==
    /\ main_ops < MaxMainOps
    /\ cstate' = homeostatic_update(cstate)
    /\ main_resp' = [kind |-> "state",
                     body |-> [i \in DOMAIN cstate'.zones |->
                                 [id |-> cstate'.zones[i].id,
                                  activity |-> cstate'.zones[i].activity,
                                  state |-> get_zone_state(cstate'.zones[i].activity)]]]
    /\ main_ops' = main_ops + 1
    /\ UNCHANGED <<cityVars, convVars, coreVars, timerVars, lunaVars, simpleVars>>

\* POST /biocore: the closure locks the state, applies the effect and replies
\* {"status": "success"}
MainBiocore(input) ==
    /\ main_ops < MaxMainOps
    /\ cstate' = CityState_apply_biocore_effect(cstate, input)
    /\ main_resp' = [kind |-> "biocore", status |-> "success"]
    /\ main_ops' = main_ops + 1
    /\ UNCHANGED <<cityVars, convVars, coreVars, timerVars, lunaVars, simpleVars>>

\* ------------------------------------------ SpecTimer: the tick scheduler
\* Time is counted in periods of the interval (1 s).  tokio's interval(period)
\* has its first deadline at creation and, with the default
\* MissedTickBehavior::Burst the code leaves in place, moves the deadline by
\* one period at every completion of tick(), however late the completion is.
\* Periods of wall time in one run of SpecTimer.
MaxPeriods == 4

\* let mut interval = interval(Duration::from_secs(1)) (line 123)
TimerIdle ==
    /\ elapsed = 0
    /\ deadline = 0
    /\ fired = 0
    /\ last_fire = 0 - 1

\* one more period of wall time has passed, wherever the background task is
PeriodElapses ==
    /\ elapsed < MaxPeriods
    /\ elapsed' = elapsed + 1
    /\ UNCHANGED <<deadline, fired, last_fire>>
    /\ UNCHANGED <<cityVars, convVars, coreVars, mainVars, lunaVars, simpleVars>>

\* interval.tick().await completes (line 125): the deadline has been reached
IntervalTick ==
    /\ pc[Sched] = "sleep"
    /\ deadline <= elapsed
    /\ deadline' = deadline + 1
    /\ fired' = fired + 1
    /\ last_fire' = elapsed
    /\ pc' = [pc EXCEPT ![Sched] = "lock"]
    /\ UNCHANGED elapsed
    /\ UNCHANGED <<engine, mutex, upd_i, req, resp, issued, oplog, nret, reqRet, snapAt>>
    /\ UNCHANGED <<convVars, coreVars, mainVars, lunaVars, simpleVars>>

\* ------------------------------------ luna_evolution.rs: LunaEvolutionEngine
LunaCallers == {"c1", "c2"}
\* a task that calls apply_learning itself, as the update task of
\* fast_api_server.rs does (lines 190-194)
Learner == "learner"
LunaTasks == LunaCallers \cup {Learner}
LunaMutexes == {"personality", "conversation_history", "zone_patterns",
                "learning_cache", "evolution_metrics"}
ZoneNames == {"Industrial"}

\* LunaEvolutionEngine::new
LunaIdle ==
    /\ luna_pc = [c \in LunaTasks |-> "idle"]
    /\ luna_lock = [m \in LunaMutexes |-> NoHolder]
    /\ luna_poison = {}
    /\ personality = [intelligence_level |-> "Beginner", total_interactions |-> 0]
    /\ evolution_metrics = [conversations_processed |-> 0,
                            patterns_identified |-> 0,
                            strategies_developed |-> 0,
                            optimizations_applied |-> 0,
                            next_evolution_threshold |-> 10]
    /\ conversation_history = 0
    /\ zone_patterns = [z \in ZoneNames |-> <<>>]
    /\ learning_cache = {}
    /\ luna_arg = [c \in LunaTasks |-> None]
    /\ luna_tmp = [c \in LunaTasks |-> None]
    /\ luna_ret = [c \in LunaTasks |-> None]
    /\ luna_started = 0
    /\ luna_done = 0

\* Calls of process_conversation started in one run.
MaxCalls == 51

\* zone_context of a call: None, or the Industrial zone at activity 0.78
ZoneContextInputs ==
    {None, Some([zone_name |-> "Industrial", activity_level |-> 78 * (F01 \div 10)])}

\* "Keep only last 50 data points"
PatternCap == 50

\* the match of update_personality on total_interactions
IntelligenceLevel(n) ==
    IF n <= 4 THEN "Beginner"
    ELSE IF n <= 9 THEN "Intermediate"
    ELSE IF n <= 19 THEN "Advanced"
    ELSE IF n <= 49 THEN "Expert"
    ELSE IF n <= 99 THEN "Master"
    ELSE "Autonomous"

\* update_personality, between its two lock() calls and its return
UpdatePersonalityStaleLevel(p) ==
    [total_interactions |-> p.total_interactions + 1,
     intelligence_level |-> IntelligenceLevel(p.total_interactions)]
update_personality(p) ==
    [total_interactions |-> p.total_interactions + 1,
     intelligence_level |-> IntelligenceLevel(p.total_interactions + 1)]

\* let evolution_thresholds = vec![5, 10, 20, 50, 100]
EvolutionThresholds == {5, 10, 20, 50, 100}

\* check_evolution, between its two lock() calls and its return
check_evolution(m, p) ==
    LET n == p.total_interactions
        hit == n \in EvolutionThresholds
    IN [m EXCEPT !.conversations_processed = n,
                 !.patterns_identified = IF hit THEN @ + (n \div 2) ELSE @,
                 !.strategies_developed = IF hit THEN @ + (n \div 3) ELSE @,
                 !.optimizations_applied = IF hit THEN @ + (n \div 4) ELSE @]

\* apply_learning: zone_patterns.push(..) and the removal of the oldest point
PushPatternDropNewest(v, x) ==
    LET w == Append(v, x)
    IN IF Len(w) > PatternCap THEN SubSeq(w, 1, PatternCap) ELSE w
PushPattern(v, x) ==
    LET w == Append(v, x)
    IN IF Len(w) > PatternCap THEN Tail(w) ELSE w

\* the mutex a caller asks for at each lock() of the call, and where it
\* continues once it has the guard
LockSites == {"gen_p", "gen_h", "gen_z", "gen_c", "gem_m", "gem_p", "gse_p", "gse_m",
              "learn_z", "learn_c", "store_h", "upd_p", "upd_m", "chk_m", "chk_p"}
LockOf(at) ==
    CASE at \in {"gen_p", "gem_p", "gse_p", "upd_p", "chk_p"} -> "personality"
      [] at \in {"gen_h", "store_h"} -> "conversation_history"
      [] at \in {"gen_z", "learn_z"} -> "zone_patterns"
      [] at \in {"gen_c", "learn_c"} -> "learning_cache"
      [] OTHER -> "evolution_metrics"
AfterLock(at) ==
    CASE at = "gen_p" -> "gen_h"
      [] at = "gen_h" -> "gen_z"
      [] at = "gen_z" -> "gen_c"
      [] at = "gen_c" -> "gen_body"
      [] at = "gem_m" -> "gem_p"
      [] at = "gem_p" -> "gem_body"
      [] at = "gse_p" -> "gse_m"
      [] at = "gse_m" -> "gse_body"
      [] at = "learn_z" -> "learn_push"
      [] at = "learn_c" -> "learn_cache"
      [] at = "store_h" -> "store_push"
      [] at = "upd_p" -> "upd_m"
      [] at = "upd_m" -> "upd_body"
      [] at = "chk_m" -> "chk_p"
      [] OTHER -> "chk_body"

\* the guards in ms are dropped by caller c
DropGuards(c, ms) ==
    luna_lock' = [m \in LunaMutexes |->
                    IF m \in ms /\ luna_lock[m] = c THEN NoHolder ELSE luna_lock[m]]

\* process_conversation is called (line 139)
LunaCall(c, zc) ==
    /\ luna_pc[c] = "idle"
    /\ luna_started < MaxCalls
    /\ luna_started' = luna_started + 1
    /\ luna_arg' = [luna_arg EXCEPT ![c] = zc]
    /\ luna_tmp' = [luna_tmp EXCEPT ![c] = None]
    /\ luna_ret' = [luna_ret EXCEPT ![c] = None]
    /\ luna_pc' = [luna_pc EXCEPT ![c] = "gen_p"]
    /\ UNCHANGED <<luna_lock, luna_poison, personality, evolution_metrics,
                   conversation_history, zone_patterns, learning_cache, luna_done>>
    /\ UNCHANGED <<cityVars, convVars, coreVars, mainVars, timerVars, simpleVars>>

\* one <mutex>.lock().unwrap() that returns the guard: the mutex is free and
\* not poisoned
LunaLock(c) ==
    /\ luna_pc[c] \in LockSites
    /\ luna_lock[LockOf(luna_pc[c])] = NoHolder
    /\ LockOf(luna_pc[c]) \notin luna_poison
    /\ luna_lock' = [luna_lock EXCEPT ![LockOf(luna_pc[c])] = c]
    /\ luna_pc' = [luna_pc EXCEPT ![c] = AfterLock(luna_pc[c])]
    /\ UNCHANGED <<luna_poison, personality, evolution_metrics, conversation_history,
                   zone_patterns, learning_cache, luna_arg, luna_tmp, luna_ret,
                   luna_started, luna_done>>
    /\ UNCHANGED <<cityVars, convVars, coreVars, mainVars, timerVars, simpleVars>>

\* a lock().unwrap() that panics: the mutex is poisoned, or the caller
\* already holds it (std leaves that case to panic or to block forever; the
\* blocked caller simply has no further step).  Unwinding drops the caller's
\* guards, which poisons their mutexes; the call returns nothing.
LunaPanic(c) ==
    /\ luna_pc[c] \in LockSites
    /\ \/ luna_lock[LockOf(luna_pc[c])] = c
       \/ /\ luna_lock[LockOf(luna_pc[c])] = NoHolder
          /\ LockOf(luna_pc[c]) \in luna_poison
    /\ luna_poison' = luna_poison \cup {m \in LunaMutexes : luna_lock[m] = c}
    /\ DropGuards(c, LunaMutexes)
    /\ luna_pc' = [luna_pc EXCEPT ![c] = "idle"]
    /\ luna_tmp' = [luna_tmp EXCEPT ![c] = None]
    /\ UNCHANGED <<personality, evolution_metrics, conversation_history,
                   zone_patterns, learning_cache, luna_arg, luna_ret,
                   luna_started, luna_done>>
    /\ UNCHANGED <<cityVars, convVars, coreVars, mainVars, timerVars, simpleVars>>

\* generate_contextual_response, the match on the level (lines 201-253), with
\* the four guards of lines 195-198 held: up to Expert the response is built
\* from the guards and the function returns; Master calls
\* get_evolution_metrics and Autonomous get_system_efficiency, which lock again
LunaGenBody(c) ==
    /\ luna_pc[c] = "gen_body"
    /\ IF personality.intelligence_level = "Master"
       THEN /\ luna_pc' = [luna_pc EXCEPT ![c] = "gem_m"]
            /\ UNCHANGED luna_lock
       ELSE IF personality.intelligence_level = "Autonomous"
       THEN /\ luna_pc' = [luna_pc EXCEPT ![c] = "gse_p"]
            /\ UNCHANGED luna_lock
       ELSE /\ luna_pc' = [luna_pc EXCEPT ![c] =
                             IF luna_arg[c].some THEN "learn_z" ELSE "learn_c"]
            /\ DropGuards(c, {"personality", "conversation_history",
                              "zone_patterns", "learning_cache"})
    /\ UNCHANGED <<luna_poison, personality, evolution_metrics, conversation_history,
                   zone_patterns, learning_cache, luna_arg, luna_tmp, luna_ret,
                   luna_started, luna_done>>
    /\ UNCHANGED <<cityVars, convVars, coreVars, mainVars, timerVars, simpleVars>>

\* apply_learning, the block of lines 713-722: the point is pushed and the
\* patterns guard dropped
LunaLearnPush(c) ==
    /\ luna_pc[c] = "learn_push"
    /\ zone_patterns' =
          [zone_patterns EXCEPT ![luna_arg[c].v.zone_name] =
              PushPattern(@, luna_arg[c].v.activity_level)]
    /\ DropGuards(c, {"zone_patterns"})
    /\ luna_pc' = [luna_pc EXCEPT ![c] = "learn_c"]
    /\ UNCHANGED <<luna_poison, personality, evolution_metrics, conversation_history,
                   learning_cache, luna_arg, luna_tmp, luna_ret, luna_started,
                   luna_done>>
    /\ UNCHANGED <<cityVars, convVars, coreVars, mainVars, timerVars, simpleVars>>

\* apply_learning, lines 725-733: the cache entry of the zone is written; the
\* cache guard stays held into the sleep
LunaLearnCache(c) ==
    /\ luna_pc[c] = "learn_cache"
    /\ learning_cache' =
          IF luna_arg[c].some THEN learning_cache \cup {luna_arg[c].v.zone_name}
          ELSE learning_cache
    /\ luna_pc' = [luna_pc EXCEPT ![c] = "learn_sleep"]
    /\ UNCHANGED <<luna_lock, luna_poison, personality, evolution_metrics,
                   conversation_history, zone_patterns, luna_arg, luna_tmp, luna_ret,
                   luna_started, luna_done>>
    /\ UNCHANGED <<cityVars, convVars, coreVars, mainVars, timerVars, simpleVars>>

\* sleep(Duration::from_millis(100)).await is over and apply_learning returns
LunaLearnWake(c) ==
    /\ luna_pc[c] = "learn_sleep"
    /\ DropGuards(c, {"learning_cache"})
    /\ luna_pc' = [luna_pc EXCEPT ![c] = IF c = Learner THEN "idle" ELSE "store_h"]
    /\ UNCHANGED <<luna_poison, personality, evolution_metrics, conversation_history,
                   zone_patterns, learning_cache, luna_arg, luna_tmp, luna_ret,
                   luna_started, luna_done>>
    /\ UNCHANGED <<cityVars, convVars, coreVars, mainVars, timerVars, simpleVars>>

\* Direct calls of apply_learning in one run.
MaxLearnCalls == 52

\* the activity level a call passes for a zone whose list is v: 0.1 first,
\* then 0.1 above the last recorded point, and 0.1 again after 0.9
ActivityAfter(v) ==
    IF v = <<>> \/ v[Len(v)] >= 9 * F01 THEN F01 ELSE v[Len(v)] + F01

\* zone_context of a direct call: None, or the Industrial zone
LearnInputs ==
    {None, Some([zone_name |-> "Industrial",
                 activity_level |-> ActivityAfter(zone_patterns["Industrial"])])}

\* apply_learning is called (line 706): with a zone context it goes to the
\* patterns lock of line 714, without one straight to the cache lock of
\* line 725
LearnCall(c, zc) ==
    /\ luna_pc[c] = "idle"
    /\ luna_started < MaxLearnCalls
    /\ luna_started' = luna_started + 1
    /\ luna_arg' = [luna_arg EXCEPT ![c] = zc]
    /\ luna_pc' = [luna_pc EXCEPT ![c] = IF zc.some THEN "learn_z" ELSE "learn_c"]
    /\ UNCHANGED <<luna_lock, luna_poison, personality, evolution_metrics,
                   conversation_history, zone_patterns, learning_cache, luna_tmp,
                   luna_ret, luna_done>>
    /\ UNCHANGED <<cityVars, convVars, coreVars, mainVars, timerVars, simpleVars>>

\* history.push(conversation) (lines 175-178)
LunaStorePush(c) ==
    /\ luna_pc[c] = "store_push"
    /\ conversation_history' = conversation_history + 1
    /\ DropGuards(c, {"conversation_history"})
    /\ luna_pc' = [luna_pc EXCEPT ![c] = "upd_p"]
    /\ UNCHANGED <<luna_poison, personality, evolution_metrics, zone_patterns,
                   learning_cache, luna_arg, luna_tmp, luna_ret, luna_started,
                   luna_done>>
    /\ UNCHANGED <<cityVars, convVars, coreVars, mainVars, timerVars, simpleVars>>

\* update_personality with both guards held: the count, the level, and the
\* clone it returns
LunaUpdBody(c) ==
    /\ luna_pc[c] = "upd_body"
    /\ personality' = update_personality(personality)
    /\ luna_tmp' = [luna_tmp EXCEPT ![c] = Some(personality')]
    /\ DropGuards(c, {"personality", "evolution_metrics"})
    /\ luna_pc' = [luna_pc EXCEPT ![c] = "chk_m"]
    /\ UNCHANGED <<luna_poison, evolution_metrics, conversation_history, zone_patterns,
                   learning_cache, luna_arg, luna_ret, luna_started, luna_done>>
    /\ UNCHANGED <<cityVars, convVars, coreVars, mainVars, timerVars, simpleVars>>

\* check_evolution with both guards held
LunaChkBody(c) ==
    /\ luna_pc[c] = "chk_body"
    /\ evolution_metrics' = check_evolution(evolution_metrics, personality)
    /\ DropGuards(c, {"personality", "evolution_metrics"})
    /\ luna_pc' = [luna_pc EXCEPT ![c] = "ret"]
    /\ UNCHANGED <<luna_poison, personality, conversation_history, zone_patterns,
                   learning_cache, luna_arg, luna_tmp, luna_ret, luna_started,
                   luna_done>>
    /\ UNCHANGED <<cityVars, convVars, coreVars, mainVars, timerVars, simpleVars>>

\* Ok((luna_response, personality)) (line 186)
LunaReturn(c) ==
    /\ luna_pc[c] = "ret"
    /\ luna_ret' = [luna_ret EXCEPT ![c] = luna_tmp[c]]
    /\ luna_done' = luna_done + 1
    /\ luna_pc' = [luna_pc EXCEPT ![c] = "idle"]
    /\ UNCHANGED <<luna_lock, luna_poison, personality, evolution_metrics,
                   conversation_history, zone_patterns, learning_cache, luna_arg,
                   luna_tmp, luna_started>>
    /\ UNCHANGED <<cityVars, convVars, coreVars, mainVars, timerVars, simpleVars>>

\* Calls started in one run of SpecLuna, where two callers overlap.
MaxConcCalls == 6

\* process_conversation called from chat_handler / evolve_handler
\* (fast_api_server.rs:222, 261), which the server runs concurrently on the
\* shared Arc<LunaEvolutionEngine>
LunaCallConc(c, zc) ==
    /\ luna_started < MaxConcCalls
    /\ LunaCall(c, zc)

\* the one client of SpecLunaSeq, which makes its calls one after another
SeqCaller == "c1"

\* ------------------------------------------- rust-core: simple_engine.rs
\* Zone::determine_state: the 4-state scheme, as strings
determine_state(activity) ==
    IF activity < Thr04 THEN "CALM"
    ELSE IF activity < Thr07 THEN "OVERSTIMULATED"
    ELSE IF activity < Thr09 THEN "EMERGENT"
    ELSE "CRITICAL"

\* Zone::new(id): activity (id * 0.1 + 0.3).min(0.9)
Simple_Zone_new(id) ==
    LET a == id * F01 + 3 * F01
        activity == IF a < Thr09 THEN a ELSE Thr09
    IN [id |-> id, activity |-> activity, target |-> Target05,
        state |-> determine_state(activity)]

\* Zone::update(learning_rate)
Simple_Zone_update(z, learning_rate) ==
    LET a2 == clamp(z.activity + Adjustment(learning_rate, z.target, z.activity))
    IN [z EXCEPT !.activity = a2, !.state = determine_state(a2)]

\* Zone::apply_influence(influence)
Simple_Zone_apply_influence(z, influence) ==
    LET a2 == clamp(z.activity + influence)
    IN [z EXCEPT !.activity = a2, !.state = determine_state(a2)]

\* BHCS::new(num_zones)
BHCS_new(num_zones) ==
    [zones |-> [i \in 0..(num_zones - 1) |-> Simple_Zone_new(i)],
     learning_rate |-> 2 * (F01 \div 10)]

\* BHCS::update
BHCS_update(b) ==
    [b EXCEPT !.zones =
        [i \in DOMAIN b.zones |-> Simple_Zone_update(b.zones[i], b.learning_rate)]]

\* BHCS::apply_influence: zones.get_mut(zone_id) is None for zone_id >= len
BHCS_apply_influence(b, zone_id, influence) ==
    IF zone_id \in DOMAIN b.zones
    THEN [b EXCEPT !.zones[zone_id] =
             Simple_Zone_apply_influence(b.zones[zone_id], influence)]
    ELSE b

\* BHCS::get_system_health and BHCS::get_average_activity
BHCS_get_system_health(b) ==
    RoundDiv(Cardinality({i \in DOMAIN b.zones : b.zones[i].state = "CALM"}) * SCALE,
             len(b.zones))
BHCS_get_average_activity(b) == RoundDiv(SumActivity(b.zones, 0), len(b.zones))

\* BHCS::reset: every zone is replaced by Zone::new(zone.id)
BHCSResetRenumber(b) ==
    [b EXCEPT !.zones = [i \in DOMAIN b.zones |-> Simple_Zone_new(b.zones[i].id + 1)]]
BHCS_reset(b) ==
    [b EXCEPT !.zones = [i \in DOMAIN b.zones |-> Simple_Zone_new(b.zones[i].id)]]

\* Calls made in one run on the three engines together.
MaxZoneOps == 3

\* BHCS::new(5) of main, and the calls of its loop: zone 2 with -0.2
\* (line 155), zone 0, and zone 5 = N; a large influence reaches the clamp
SimpleZones == 5
SimpleZoneIdInputs == {0, 2, SimpleZones}
SimpleInfluenceInputs == {0 - 2 * F01, 5 * SCALE}

SimpleIdle ==
    /\ bhcs = BHCS_new(SimpleZones)
    /\ bhcs_call = NoCall
    /\ bhcs_status = NoResp
    /\ bhcs_ops = 0

\* calls made so far on the engines of SpecZones
ZoneOps == nticks + core_ops + bhcs_ops

\* bhcs.update() (line 145)
SimpleUpdate ==
    /\ ZoneOps < MaxZoneOps
    /\ bhcs' = BHCS_update(bhcs)
    /\ bhcs_call' = [fn |-> "update"]
    /\ bhcs_ops' = bhcs_ops + 1
    /\ UNCHANGED bhcs_status
    /\ UNCHANGED <<cityVars, convVars, coreVars, mainVars, timerVars, lunaVars>>

\* bhcs.apply_influence(zone_id, influence) (lines 155, 168)
SimpleInfluence(zone_id, influence) ==
    /\ ZoneOps < MaxZoneOps
    /\ bhcs' = BHCS_apply_influence(bhcs, zone_id, influence)
    /\ bhcs_call' = [fn |-> "apply_influence", zone_id |-> zone_id,
                     influence |-> influence]
    /\ bhcs_ops' = bhcs_ops + 1
    /\ UNCHANGED bhcs_status
    /\ UNCHANGED <<cityVars, convVars, coreVars, mainVars, timerVars, lunaVars>>

\* bhcs.print_status() (line 150): the health and the mean activity are read
SimpleStatus ==
    /\ ZoneOps < MaxZoneOps
    /\ bhcs_status' = [kind |-> "status",
                       system_health |-> BHCS_get_system_health(bhcs),
                       average_activity |-> BHCS_get_average_activity(bhcs)]
    /\ bhcs_call' = [fn |-> "print_status"]
    /\ bhcs_ops' = bhcs_ops + 1
    /\ UNCHANGED bhcs
    /\ UNCHANGED <<cityVars, convVars, coreVars, mainVars, timerVars, lunaVars>>

\* bhcs.reset() (line 176)
SimpleReset ==
    /\ ZoneOps < MaxZoneOps
    /\ bhcs' = BHCS_reset(bhcs)
    /\ bhcs_call' = [fn |-> "reset"]
    /\ bhcs_ops' = bhcs_ops + 1
    /\ UNCHANGED bhcs_status
    /\ UNCHANGED <<cityVars, convVars, coreVars, mainVars, timerVars, lunaVars>>

\* --------------------------------------------------------- specifications
Init == CityIdle /\ ConvIdle /\ CoreIdle /\ MainIdle /\ TimerIdle /\ LunaIdle
    /\ SimpleIdle

Next ==
    \/ TimerFire
    \/ SchedLock
    \/ SchedUpdateZone
    \/ SchedUnlock
    \/ \E p \in Handlers : RecvState(p)
    \/ \E p \in Handlers, z \in ZoneIdInputs, d \in InfluenceInputs :
          RecvInfluence(p, "influence", z, d)
    \/ \E p \in Handlers, b \in BiocoreInputs : RecvInfluence(p, "biocore", b[1], b[2])
    \/ \E p \in Handlers : HandlerLock(p)
    \/ \E p \in Handlers : HandleState(p)
    \/ \E p \in Handlers : HandleInfluence(p)
    \/ \E p \in Handlers : HandlerUnlock(p)

Spec == Init /\ [][Next]_vars

InitCore == CityIdle /\ ConvIdle /\ CoreInit /\ MainIdle /\ TimerIdle /\ LunaIdle
    /\ SimpleIdle

NextCore ==
    \/ CoreUpdate
    \/ \E h \in CoreHandlers, zid \in CoreZoneIdInputs, inf \in CoreInfluenceInputs :
          CoreInfluenceCall(h, zid, inf)
    \/ \E h \in CoreHandlers : CoreInfluenceReply(h)
    \/ CoreGetState

SpecCore == InitCore /\ [][NextCore]_vars

InitDirect == CityIdle /\ ConvIdle /\ DirectInit /\ MainIdle /\ TimerIdle /\ LunaIdle
    /\ SimpleIdle

NextDirect == DirectTick

SpecDirect == InitDirect /\ [][NextDirect]_vars

\* Calls on the city_core engine in one run of influences and ticks.
MaxEqOps == 3

\* influences that bring Downtown (0.3), Industrial (0.6) or Parks (0.4) to
\* the target: +0.2, -0.1, +0.1
EqZoneInputs == {0, 1, 4}
EqInfluenceInputs == {2 * F01, 0 - F01, F01}

\* engine.update() under the lock (lines 126-128)
EqTick ==
    /\ nticks < MaxEqOps
    /\ engine' = update(engine)
    /\ nticks' = nticks + 1
    /\ UNCHANGED <<mutex, pc, upd_i, req, resp, issued, oplog, nret, reqRet, snapAt>>
    /\ UNCHANGED <<coreVars, mainVars, timerVars, lunaVars, simpleVars>>

\* engine.apply_influence(zone_id, influence) under the lock
EqInfluence(zone_id, influence) ==
    /\ nticks < MaxEqOps
    /\ engine' = apply_influence(engine, zone_id, influence)[1]
    /\ nticks' = nticks + 1
    /\ UNCHANGED <<mutex, pc, upd_i, req, resp, issued, oplog, nret, reqRet, snapAt>>
    /\ UNCHANGED <<coreVars, mainVars, timerVars, lunaVars, simpleVars>>

NextEq ==
    \/ EqTick
    \/ \E zone_id \in EqZoneInputs, influence \in EqInfluenceInputs :
          EqInfluence(zone_id, influence)

SpecEq == Init /\ [][NextEq]_vars

\* The three engines with a fixed zone vector, each driven by its own calls:
\* city_core (tick, influence), rust-core engine.rs behind api.rs (tick,
\* influence, state) and simple_engine.rs (tick, influence, status, reset).
ZonesCityTick == ZoneOps < MaxZoneOps /\ EqTick
ZonesCityInfluence(zone_id, influence) ==
    ZoneOps < MaxZoneOps /\ EqInfluence(zone_id, influence)
ZonesCoreUpdate == ZoneOps < MaxZoneOps /\ CoreUpdate
ZonesCoreInfluence(zid, inf) ==
    ZoneOps < MaxZoneOps /\ CoreInfluenceCall("r1", zid, inf)
ZonesCoreGetState == ZoneOps < MaxZoneOps /\ CoreGetState

NextZones ==
    \/ ZonesCityTick
    \/ \E zone_id \in ZoneIdInputs, influence \in InfluenceInputs :
          ZonesCityInfluence(zone_id, influence)
    \/ ZonesCoreUpdate
    \/ \E zid \in {Some(0), Some(CoreZones)}, inf \in CoreInfluenceInputs :
          ZonesCoreInfluence(zid, inf)
    \/ CoreInfluenceReply("r1")
    \/ ZonesCoreGetState
    \/ SimpleUpdate
    \/ \E zone_id \in SimpleZoneIdInputs, influence \in SimpleInfluenceInputs :
          SimpleInfluence(zone_id, influence)
    \/ SimpleStatus
    \/ SimpleReset

\* the rust-core engine starts with both zones at 0.25
InitZones == InitCore /\ \A i \in DOMAIN core.zones : core.zones[i].activity = SCALE \div 4

SpecZones == InitZones /\ [][NextZones]_vars

InitConv ==
    /\ mutex = NoHolder
    /\ pc = [p \in Procs |-> IF p = Sched THEN "sleep" ELSE "idle"]
    /\ upd_i = 0
    /\ req = [p \in Handlers |-> NoReq]
    /\ resp = [p \in Handlers |-> NoResp]
    /\ issued = 0
    /\ oplog = <<>>
    /\ nret = 0
    /\ reqRet = [p \in Handlers |-> 0]
    /\ snapAt = [p \in Handlers |-> 0]
    /\ \E e \in {Target05, 9 * F01} : engine = ConvEngine(9 * F01, e)
    /\ ConvIdle
    /\ CoreIdle
    /\ MainIdle
    /\ TimerIdle
    /\ LunaIdle
    /\ SimpleIdle

InitMain == CityIdle /\ ConvIdle /\ CoreIdle /\ MainInit /\ TimerIdle /\ LunaIdle
    /\ SimpleIdle

NextMain ==
    \/ MainGetState
    \/ \E input \in MainBiocoreInputs : MainBiocore(input)

SpecMain == InitMain /\ [][NextMain]_vars

\* Spec with the scheduling the tick task relies on: the runtime keeps
\* polling the background task and the handlers (their code between lock and
\* unlock is straight-line), and the lock is granted fairly: a task that asks
\* for it again and again while it is released again and again gets it.
FairLive ==
    /\ SF_vars(SchedLock)
    /\ WF_vars(SchedUpdateZone)
    /\ WF_vars(SchedUnlock)
    /\ \A p \in Handlers :
          /\ WF_vars(HandleState(p))
          /\ WF_vars(HandleInfluence(p))
          /\ WF_vars(HandlerUnlock(p))

SpecLive == Init /\ [][Next]_vars /\ FairLive

NextTimer ==
    \/ PeriodElapses
    \/ IntervalTick
    \/ SchedLock
    \/ SchedUpdateZone
    \/ SchedUnlock

SpecTimer == Init /\ [][NextTimer]_vars

NextLunaSeq ==
    \/ \E zc \in ZoneContextInputs : LunaCall(SeqCaller, zc)
    \/ LunaLock(SeqCaller)
    \/ LunaPanic(SeqCaller)
    \/ LunaGenBody(SeqCaller)
    \/ LunaLearnPush(SeqCaller)
    \/ LunaLearnCache(SeqCaller)
    \/ LunaLearnWake(SeqCaller)
    \/ LunaStorePush(SeqCaller)
    \/ LunaUpdBody(SeqCaller)
    \/ LunaChkBody(SeqCaller)
    \/ LunaReturn(SeqCaller)

SpecLunaSeq == Init /\ [][NextLunaSeq]_vars

\* Two overlapping callers on a new engine.  Below the Master level no
\* lock() of a call can panic (nothing re-locks and nothing is poisoned), so
\* LunaPanic has no enabled instance in this range and is left out.
NextLuna ==
    \/ \E c \in LunaCallers, zc \in ZoneContextInputs : LunaCallConc(c, zc)
    \/ \E c \in LunaCallers : LunaLock(c)
    \/ \E c \in LunaCallers : LunaGenBody(c)
    \/ \E c \in LunaCallers : LunaLearnPush(c)
    \/ \E c \in LunaCallers : LunaLearnCache(c)
    \/ \E c \in LunaCallers : LunaLearnWake(c)
    \/ \E c \in LunaCallers : LunaStorePush(c)
    \/ \E c \in LunaCallers : LunaUpdBody(c)
    \/ \E c \in LunaCallers : LunaChkBody(c)
    \/ \E c \in LunaCallers : LunaReturn(c)

SpecLuna == Init /\ [][NextLuna]_vars

\* apply_learning called again and again on a new engine
NextLearn ==
    \/ \E zc \in LearnInputs : LearnCall(Learner, zc)
    \/ LunaLock(Learner)
    \/ LunaLearnPush(Learner)
    \/ LunaLearnCache(Learner)
    \/ LunaLearnWake(Learner)

SpecLearn == Init /\ [][NextLearn]_vars

SpecConv == InitConv /\ [][ConvTick]_vars

\* ------------------------------------------------------------------ claims
InCS(p) == pc[p] \in {"update", "unlock", "cs", "reply"}
IsInfluenceReq(p) == req[p].kind \in {"influence", "biocore"}
\* the step in which handler p's apply_influence call runs
InfluenceStep(p) == pc[p] = "cs" /\ IsInfluenceReq(p) /\ pc'[p] = "reply"
InUnit(x) == x >= 0 /\ x <= SCALE

\* C1: after any sequence of ticks and influences (any zone id, any delta),
\* every zone's activity and every EMA accumulator lies in [0,1].
C1_Clamping ==
    \A i \in DOMAIN engine.zones :
        InUnit(engine.zones[i].activity) /\ InUnit(engine.ema[i])

\* an influence of 5.0 has been clamped to 1.0 after a tick has run
C1_Witness ==
    /\ \E j \in 1..Len(oplog) : oplog[j].op = "tick"
    /\ \E j \in 1..Len(oplog) : oplog[j].op = "influence" /\ oplog[j].influence > SCALE
    /\ \E i \in DOMAIN engine.zones : engine.zones[i].activity = SCALE

\* C2 (as claimed): in every reachable state each zone's stored state is
\* classify(activity) of its current activity.
C2_ClassificationConsistent ==
    \A i \in DOMAIN engine.zones :
        engine.zones[i].state = classify(engine.zones[i].activity)

\* C3 (as claimed): apply_influence with zone_id >= N returns an OutOfRange
\* failure to its caller (rust-core engine.rs).
C3_OutOfRangeFails ==
    (core_call.fn = "apply_influence" /\ core_call.zone_id >= len(core.zones))
        => core_call.ret = "Err"

\* C4: an apply_influence call with zone_id >= N leaves the whole regulator
\* (zones, EMA accumulators, target, eta, zone count) as it was.
C4_InvalidIndexNoMutation ==
    [][\A p \in Handlers :
          (InfluenceStep(p) /\ req[p].zone_id >= len(engine.zones))
              => engine' = engine]_vars

\* a failed influence has been answered in a regulator that earlier
\* operations had already changed
C4_Witness ==
    \E p \in Handlers :
        /\ pc[p] = "reply"
        /\ resp[p].kind \in {"influence", "biocore"}
        /\ resp[p].result = "Err"
        /\ engine # new

\* C5: every snapshot equals the regulator's zone data at one single point
\* between operations: the zones after some prefix of the operations, never a
\* mix of two such points.
C5_SnapshotAtomic ==
    \A p \in Handlers :
        resp[p].kind = "state"
            => \E k \in 0..Len(oplog) : resp[p].body.zones = Replay(oplog, k).zones

\* a snapshot taken after a tick while the next tick is waiting for the lock
C5_Witness ==
    \E p \in Handlers :
        /\ resp[p].kind = "state"
        /\ pc[p] = "reply"
        /\ pc[Sched] = "lock"
        /\ \E j \in 1..snapAt[p] : oplog[j].op = "tick"

\* C6: at most one task is inside the regulator at a time and it holds the
\* lock; the operations are totally ordered: whenever no tick is half way
\* through, the regulator is the result of the operations applied one after
\* the other in the order they took effect.
C6_MutualExclusion ==
    /\ \A p, q \in Procs : (InCS(p) /\ InCS(q)) => p = q
    /\ \A p \in Procs : InCS(p) => mutex = p
    /\ pc[Sched] # "update" => engine = Replay(oplog, Len(oplog))

\* a tick is half way through its zones while both handlers wait for the
\* lock, one of them with an influence
C6_Witness ==
    /\ pc[Sched] = "update"
    /\ upd_i > 0
    /\ \A p \in Handlers : pc[p] = "lock"
    /\ \E p \in Handlers : IsInfluenceReq(p)

\* C7: a snapshot reflects every operation that had returned before its
\* request started: its zones are those after a prefix of the operations
\* that holds at least all of them.
C7_Visibility ==
    \A p \in Handlers :
        resp[p].kind = "state"
            => /\ snapAt[p] >= reqRet[p]
               /\ resp[p].body.zones = Replay(oplog, snapAt[p]).zones

\* a snapshot requested after two operations had returned
C7_Witness ==
    \E p \in Handlers :
        /\ resp[p].kind = "state"
        /\ reqRet[p] >= 2
        /\ resp[p].body.zones # new.zones

\* C8: one zone from activity 0.9, target 0.5, eta 0.1, ticks only.
ConvActivity == engine.zones[0].activity
Dist == Abs(engine.zones[0].activity - engine.target)

\* C8 (as claimed): the distance to the target never grows at a tick, it is
\* at most 0.01 after 200 ticks, and activity stays in [0,1].
C8_MonotoneConvergence ==
    [][/\ Dist' <= Dist
       /\ (nticks' = 200 => Dist' <= SCALE \div 100)
       /\ InUnit(ConvActivity')]_vars

\* C8 (amended): activity stays in [0,1] at every tick and is within 0.03 of
\* the target after 200 ticks and at every later tick.
C8_BoundedConvergence ==
    /\ InUnit(ConvActivity)
    /\ nticks >= 200 => Dist <= 3 * (SCALE \div 100)

\* after 200 ticks the zone is within 0.03 of the target but not within 0.01
C8_Witness ==
    /\ nticks = 200
    /\ Dist <= 3 * (SCALE \div 100)
    /\ Dist > SCALE \div 100

\* C9: a successful apply_influence(zone_id, delta) sets the zone's activity
\* to 1.0 when activity + delta >= 1, to 0.0 when activity + delta <= 0 and to
\* activity + delta otherwise.
C9_InfluenceBounded ==
    [][\A p \in Handlers :
          (InfluenceStep(p) /\ req[p].zone_id < len(engine.zones))
              => LET z == req[p].zone_id
                     s == engine.zones[z].activity + req[p].influence
                 IN engine'.zones[z].activity =
                        (IF s >= SCALE THEN SCALE ELSE IF s <= 0 THEN 0 ELSE s)]_vars

\* apply_influence(0, 5.0) has just succeeded
C9_Witness ==
    \E p \in Handlers :
        /\ pc[p] = "reply"
        /\ resp[p].kind = "influence"
        /\ resp[p].success
        /\ resp[p].zone_id = 0
        /\ resp[p].influence = 5 * SCALE
        /\ engine.zones[0].activity = SCALE

\* C10 (as claimed): after the first tick of the constructed regulator zone 0
\* has smoothed value 0.3, activity 0.32 and state Calm.
C10_FirstTickExample ==
    oplog = <<TickOp>>
        => /\ engine.ema[0] = 3 * F01
           /\ engine.zones[0].activity = 32 * (F01 \div 10)
           /\ engine.zones[0].state = "CALM"

\* the 4-state scheme of zone.rs, in the spelling of city_core's ZoneState
FourState(x) ==
    LET st == from_activity(x)
    IN CASE st = "Calm" -> "CALM"
         [] st = "Overstimulated" -> "OVERSTIMULATED"
         [] st = "Emergent" -> "EMERGENT"
         [] OTHER -> "CRITICAL"

\* C11 (as claimed): the state a tick stores for a zone is the result of the
\* 4-state scheme (Calm < 0.4 <= Overstimulated < 0.7 <= Emergent < 0.9 <=
\* Critical) applied to the zone's new activity.
C11_FourStateScheme ==
    [][(pc[Sched] = "update" /\ upd_i' = upd_i + 1)
          => engine'.zones[upd_i].state = FourState(engine'.zones[upd_i].activity)]_vars

\* C12 (as claimed): a state read leaves every zone's activity and EMA
\* unchanged; only the scheduler's tick and apply_influence change them.
C12_ReadOnlySnapshot ==
    [][(main_ops' = main_ops + 1 /\ main_resp'.kind = "state") => cstate' = cstate]_vars

\* C13 (as claimed): the scheduler has no catch-up: a tick that could not run
\* in its period is lost, so no two ticks start within the same period.
C13_NoCatchUp == [][fired' = fired + 1 => last_fire < elapsed]_vars

\* C14: after any sequence of ticks, influences, snapshots and resets the
\* zone count is the constructed one, zone i has id i, the EMA vector (where
\* the engine has one) has one entry per zone, and target and eta (the
\* learning rate) have their construction values: in city_core, in engine.rs
\* and in simple_engine.rs.
C14_FixedZones ==
    /\ DOMAIN engine.zones = DOMAIN new.zones
    /\ \A i \in DOMAIN engine.zones : engine.zones[i].id = i
    /\ DOMAIN engine.ema = DOMAIN engine.zones
    /\ engine.target = new.target
    /\ engine.eta = new.eta
    /\ DOMAIN core.zones = 0..(CoreZones - 1)
    /\ \A i \in DOMAIN core.zones :
          core.zones[i].id = i /\ core.zones[i].target = 5 * F01
    /\ core.config = CoreConfig
    /\ DOMAIN bhcs.zones = 0..(SimpleZones - 1)
    /\ \A i \in DOMAIN bhcs.zones :
          bhcs.zones[i].id = i /\ bhcs.zones[i].target = 5 * F01
    /\ bhcs.learning_rate = 2 * (F01 \div 10)

\* the simple engine has been reset after its zones had moved, and the
\* city_core engine has changed as well
C14_Witness ==
    /\ bhcs_call.fn = "reset"
    /\ bhcs_ops = 2
    /\ bhcs = BHCS_new(SimpleZones)
    /\ engine # new

\* C15: in a state reply, average_activity is the mean of the returned
\* activities and homeostatic_balance is |average_activity - target|: never
\* negative, and 0 exactly when the mean equals the target.
C15_SnapshotMetrics ==
    core_resp.kind = "state"
        => LET zs == core_resp.zones
               mean == RoundDiv(SumActivity(zs, 0), len(zs))
               target == core.config.target_calmness
               m == core_resp.metrics
           IN /\ m.average_activity = mean
              /\ m.homeostatic_balance =
                     (IF mean >= target THEN mean - target ELSE target - mean)
              /\ m.homeostatic_balance >= 0
              /\ (m.homeostatic_balance = 0) <=> (mean = target)

\* a state reply taken after the zones had moved below the target on average
C15_Witness ==
    /\ core_resp.kind = "state"
    /\ core_ops >= 2
    /\ \E i \in DOMAIN core_resp.zones : core_resp.zones[i].activity \notin CoreSeeds
    /\ core_resp.metrics.average_activity < core.config.target_calmness
    /\ core_resp.metrics.homeostatic_balance > 0

\* C16 (as claimed): the system_health of a snapshot is the fraction of the
\* returned zones whose activity classifies as Calm, or else
\* 1 - |mean activity - target|.
C16_SystemHealth ==
    \A p \in Handlers :
        resp[p].kind = "state"
            => LET zs == resp[p].body.zones
                   calm == Cardinality({i \in DOMAIN zs : zs[i].activity < Thr04})
                   mean == RoundDiv(SumActivity(zs, 0), len(zs))
               IN \/ resp[p].body.system_health = RoundDiv(calm * SCALE, len(zs))
                  \/ resp[p].body.system_health = SCALE - Abs(mean - engine.target)

\* C17 (as claimed): the tick of a zone sets that zone's last_update to the
\* current time.
C17_LastUpdateStamped ==
    [][(pc[Sched] = "update" /\ upd_i' = upd_i + 1)
          => "last_update" \in DOMAIN engine'.zones[upd_i]]_vars

\* C18: an influence or biocore call fails only for a zone id outside the
\* vector: with zone_id < N it succeeds for every delta in every state, and a
\* snapshot always returns the N zones.
C18_OnlyInvalidIdFails ==
    \A p \in Handlers :
        /\ resp[p].kind \in {"influence", "biocore"}
              => (resp[p].result = "Ok" <=> resp[p].zone_id < len(engine.zones))
        /\ resp[p].kind = "state"
              => DOMAIN resp[p].body.zones = DOMAIN engine.zones

\* an influence on an existing zone has succeeded while the background task
\* and the other handler are both queued on the lock
C18_Witness ==
    \E p \in Handlers :
        /\ pc[p] = "reply"
        /\ resp[p].kind \in {"influence", "biocore"}
        /\ resp[p].zone_id < len(engine.zones)
        /\ resp[p].result = "Ok"
        /\ pc[Sched] = "lock"
        /\ \A q \in Handlers \ {p} : pc[q] = "lock"

\* C19 (as claimed): the influence route answers success only when the body
\* named an existing zone; zone_id >= N or no usable zone_id is never answered
\* with success.
C19_FailureSurfaced ==
    (core_resp.kind = "influence" /\ core_resp.success)
        => (core_resp.requested.some /\ core_resp.requested.v < len(core.zones))

\* the level the claim gives for a count, and the order of the levels
C20_Level(n) ==
    CASE n \in 0..4 -> "Beginner"
      [] n \in 5..9 -> "Intermediate"
      [] n \in 10..19 -> "Advanced"
      [] n \in 20..49 -> "Expert"
      [] n \in 50..99 -> "Master"
      [] OTHER -> "Autonomous"
C20_Rank(l) ==
    CASE l = "Beginner" -> 0
      [] l = "Intermediate" -> 1
      [] l = "Advanced" -> 2
      [] l = "Expert" -> 3
      [] l = "Master" -> 4
      [] OTHER -> 5
C20_CounterOK ==
    /\ personality.intelligence_level = C20_Level(personality.total_interactions)
    /\ luna_pc[SeqCaller] = "idle" => personality.total_interactions = luna_done
    /\ luna_ret[SeqCaller].some
          => /\ luna_ret[SeqCaller].v.total_interactions = luna_done
             /\ luna_ret[SeqCaller].v.intelligence_level = C20_Level(luna_done)

\* C20: with calls made one after another on a new engine, after k completed
\* calls total_interactions is k and the k-th call returned a personality
\* reporting k; the level is the claimed function of the count (0-4 Beginner,
\* 5-9 Intermediate, 10-19 Advanced, 20-49 Expert, 50-99 Master, above
\* Autonomous) and never goes down.
C20_InteractionCounter ==
    [][/\ C20_CounterOK'
       /\ C20_Rank(personality'.intelligence_level) >=
              C20_Rank(personality.intelligence_level)]_vars

\* the 50th call has returned: the count is 50 and the level Master
C20_Witness ==
    /\ luna_pc[SeqCaller] = "idle"
    /\ luna_done = 50
    /\ luna_ret[SeqCaller].some
    /\ luna_ret[SeqCaller].v.total_interactions = 50
    /\ personality.intelligence_level = "Master"

\* C21: under fair scheduling of the lock, whatever snapshot and influence
\* requests (out-of-range ones included) arrive, every tick the scheduler has
\* started acquires the lock, runs over all zones and returns to the timer.
C21_TickLiveness == (pc[Sched] = "lock") ~> (pc[Sched] = "sleep")

\* the tick task waits for the lock while a handler holds it for an
\* influence on zone 5 = N
C21_Witness ==
    /\ pc[Sched] = "lock"
    /\ \E p \in Handlers :
          /\ mutex = p
          /\ IsInfluenceReq(p)
          /\ req[p].zone_id >= len(engine.zones)

\* C22 (as claimed): the tick of zone i replaces smoothed[i] by
\* 0.97*smoothed[i] + 0.03*activity[i], adds eta*(target - new smoothed[i]) to
\* the pre-tick activity, clamps the sum to [0,1] and stores the 4-state
\* classification of the new activity.
C22_ControlLaw ==
    [][(pc[Sched] = "update" /\ upd_i' = upd_i + 1)
          => LET a == engine.zones[upd_i].activity
                 s2 == RoundDiv(97 * engine.ema[upd_i] + 3 * a, 100)
                 adj == RoundDiv((engine.eta \div EtaUnit) * (engine.target - s2),
                                 SCALE \div EtaUnit)
                 a2 == IF a + adj < 0 THEN 0 ELSE IF a + adj > SCALE THEN SCALE ELSE a + adj
             IN /\ engine'.ema[upd_i] = s2
                /\ engine'.zones[upd_i].activity = a2
                /\ engine'.zones[upd_i].state = FourState(a2)]_vars

\* C23: a successful apply_influence leaves every other zone, every EMA
\* accumulator (the targeted zone's too), target and eta as they were, and
\* the EMA accumulators change only in a step of the tick.
C23_InfluenceFrame ==
    [][/\ \A p \in Handlers :
            (InfluenceStep(p) /\ req[p].zone_id < len(engine.zones))
                => /\ \A i \in DOMAIN engine.zones :
                         i # req[p].zone_id => engine'.zones[i] = engine.zones[i]
                   /\ DOMAIN engine'.zones = DOMAIN engine.zones
                   /\ engine'.zones[req[p].zone_id].id = req[p].zone_id
                   /\ engine'.ema = engine.ema
                   /\ engine'.target = engine.target
                   /\ engine'.eta = engine.eta
       /\ engine'.ema # engine.ema => (pc[Sched] = "update" /\ upd_i' = upd_i + 1)]_vars

\* an influence on an existing zone has been applied after a tick had moved
\* the accumulators off their seed
C23_Witness ==
    /\ Len(oplog) = 2
    /\ oplog[1] = TickOp
    /\ oplog[2].op = "influence"
    /\ oplog[2].zone_id < len(engine.zones)
    /\ engine.ema # new.ema
    /\ engine.zones[oplog[2].zone_id].activity # Replay(oplog, 1).zones[oplog[2].zone_id].activity

\* the zones of a tick taken in the order given by the sequence order
RECURSIVE UpdateInOrder(_, _)
UpdateInOrder(eng, order) ==
    IF order = <<>> THEN eng
    ELSE UpdateInOrder(UpdateZone(eng, Head(order)), Tail(order))

\* every order in which the five zones can be visited
ZoneOrders ==
    {o \in [1..5 -> 0..4] : \A a, b \in 1..5 : a # b => o[a] # o[b]}

\* C24: when a tick completes, the regulator is the one any visiting order of
\* the zones would have produced from the pre-tick state, and had any zone j
\* received an influence just before the tick, every other zone would have
\* the same post-tick activity, state and EMA.
C24_ZonesIndependent ==
    [][(pc[Sched] = "update" /\ pc'[Sched] = "unlock")
          => LET pre == Replay(oplog, Len(oplog))
             IN /\ \A o \in ZoneOrders : engine' = UpdateInOrder(pre, o)
                /\ \A j \in DOMAIN pre.zones, d \in InfluenceInputs :
                      LET alt == update(apply_influence(pre, j, d)[1])
                      IN \A i \in DOMAIN pre.zones :
                            i # j => /\ alt.zones[i] = engine'.zones[i]
                                     /\ alt.ema[i] = engine'.ema[i]]_vars

\* a tick has completed on a regulator that an influence had changed before
C24_Witness ==
    /\ pc[Sched] = "unlock"
    /\ Len(oplog) = 2
    /\ oplog[1].op = "influence"
    /\ oplog[1].zone_id < len(engine.zones)
    /\ oplog[2] = TickOp
    /\ engine.zones # update(new).zones

\* C25 (as claimed): no call of process_conversation asks for one of the
\* engine's mutexes while the same call already holds it, at any
\* intelligence level, so no call can block on itself.
C25_NoSelfRelock ==
    \A c \in LunaCallers :
        luna_pc[c] \in LockSites => luna_lock[LockOf(luna_pc[c])] # c

\* caller c is at a lock() whose mutex caller d holds
LunaWaitsFor(c, d) ==
    luna_pc[c] \in LockSites /\ luna_lock[LockOf(luna_pc[c])] = d

\* C26 (as claimed): two concurrent calls of process_conversation never
\* reach a state where each waits for a mutex the other holds.
C26_NoCircularWait ==
    \A c, d \in LunaCallers :
        c # d => ~(LunaWaitsFor(c, d) /\ LunaWaitsFor(d, c))

\* the sum of t \div k over the milestones t in ts
RECURSIVE C27_Sum(_, _)
C27_Sum(ts, k) ==
    IF ts = {} THEN 0
    ELSE LET t == CHOOSE x \in ts : TRUE
         IN (t \div k) + C27_Sum(ts \ {t}, k)

\* the milestones reached by a count of n interactions
C27_Reached(n) == {t \in {5, 10, 20, 50, 100} : t <= n}

\* C27 (as claimed): for every interleaving of concurrent calls, each
\* milestone in {5, 10, 20, 50, 100} has added threshold/2, threshold/3 and
\* threshold/4 to the three counters at most once, and exactly once when
\* every started call has completed; conversations_processed then equals
\* total_interactions.
C27_MilestonesOnce ==
    LET n == personality.total_interactions
        m == evolution_metrics
        quiet == \A c \in LunaCallers : luna_pc[c] = "idle"
    IN /\ m.patterns_identified <= C27_Sum(C27_Reached(n), 2)
       /\ m.strategies_developed <= C27_Sum(C27_Reached(n), 3)
       /\ m.optimizations_applied <= C27_Sum(C27_Reached(n), 4)
       /\ quiet => /\ m.patterns_identified = C27_Sum(C27_Reached(n), 2)
                    /\ m.strategies_developed = C27_Sum(C27_Reached(n), 3)
                    /\ m.optimizations_applied = C27_Sum(C27_Reached(n), 4)
                    /\ m.conversations_processed = n

\* the last n entries of a list, in order
C28_LastN(w, n) == SubSeq(w, Len(w) - n + 1, Len(w))

\* C28: every pattern list has at most 50 entries; a call with a zone
\* context leaves in the zone's list the last 50 of the old entries followed
\* by the new point, in arrival order, and no other list changes; a call
\* without zone context changes no pattern list and no cache entry.
C28_LastFifty ==
    /\ [](\A z \in ZoneNames : Len(zone_patterns[z]) <= 50)
    /\ [][\A c \in LunaTasks :
            /\ (luna_pc[c] = "learn_push" /\ luna_pc'[c] # "learn_push") =>
                  LET z == luna_arg[c].v.zone_name
                      w == Append(zone_patterns[z], luna_arg[c].v.activity_level)
                  IN /\ zone_patterns'[z] =
                           C28_LastN(w, IF Len(w) < 50 THEN Len(w) ELSE 50)
                     /\ \A y \in ZoneNames \ {z} :
                           zone_patterns'[y] = zone_patterns[y]
            /\ (luna_pc[c] \in {"learn_c", "learn_cache", "learn_sleep"}
                 /\ luna_pc'[c] # luna_pc[c] /\ ~luna_arg[c].some) =>
                  /\ zone_patterns' = zone_patterns
                  /\ learning_cache' = learning_cache]_vars

\* the 51st point has been recorded: the list holds 50 points and the oldest
\* one, 0.1, is gone
C28_Witness ==
    /\ Len(zone_patterns["Industrial"]) = 50
    /\ zone_patterns["Industrial"][1] = 2 * F01
    /\ luna_pc[Learner] = "idle"
    /\ ~luna_arg[Learner].some

\* C29: in the direct-correction tick (error = target - activity, no EMA),
\* with a learning rate in (0, 1], no zone's distance to the target grows
\* and no zone changes side: a zone at or above the target stays at or
\* above it, a zone at or below stays at or below.
C29_NoOvershoot ==
    [][(core_call'.fn = "update" /\ core_ops' = core_ops + 1
        /\ core.config.learning_rate > 0 /\ core.config.learning_rate <= SCALE) =>
          \A i \in DOMAIN core.zones :
             LET a == core.zones[i].activity
                 b == core'.zones[i].activity
                 t == core.config.target_calmness
             IN /\ Abs(b - t) <= Abs(a - t)
                /\ (a >= t) => (b >= t)
                /\ (a <= t) => (b <= t)]_vars

\* one tick at learning rate 0.5 has halved the distance of a zone that
\* started at 0.2 and of a zone that started at 0.79
C29_Witness ==
    /\ core_call.fn = "update"
    /\ core.config.learning_rate = 5 * F01
    /\ \E i, j \in DOMAIN core.zones :
          /\ core.zones[i].activity = 35 * (F01 \div 10)
          /\ core.zones[j].activity = 645 * (F01 \div 100)

\* C30 (as claimed): a tick leaves the activity, the EMA and the state of a
\* zone unchanged when its activity and its EMA both equal the target; a
\* zone whose activity equals the target while its EMA does not is moved off
\* the target by the tick.
C30_FixedPoint ==
    [][(engine' = update(engine) /\ nticks' = nticks + 1) =>
          \A i \in DOMAIN engine.zones :
             /\ (engine.zones[i].activity = engine.target
                 /\ engine.ema[i] = engine.target) =>
                   /\ engine'.zones[i].activity = engine.zones[i].activity
                   /\ engine'.ema[i] = engine.ema[i]
                   /\ engine'.zones[i].state = engine.zones[i].state
             /\ (engine.zones[i].activity = engine.target
                 /\ engine.ema[i] # engine.target) =>
                   engine'.zones[i].activity # engine.target]_vars

=============================================================================
